---------------------------- MODULE Spec2Model ----------------------------
(***************************************************************************)
(* A model of v8coder.py: the SerializationTag vocabulary, the ZigZag and  *)
(* SwapBytes codecs, Reader.read_token and Writer.write_token.             *)
(*                                                                         *)
(* Bytes are the integers 0..255 and a byte string is a sequence of them.  *)
(* A Python int is unbounded; it is kept here as two limbs,                *)
(*     [hi |-> h, lo |-> l]  standing for  h * 2^16 + l,  0 <= l < 2^16,   *)
(* with h any (signed) integer, so that h carries the two's complement     *)
(* sign extension Python's bit operators see.                              *)
(***************************************************************************)
EXTENDS Integers, Sequences, FiniteSets, TLC

VARIABLES
    canon,   \* which member of SerializationTag owns each byte value
    dst,     \* Writer: the bytes of the destination
    wcall,   \* Writer: the last write_token call, <<tag, token_args>>
    wprev,   \* Writer: the destination as it was before the last call
    wres,    \* Writer: how the last call ended
    src,     \* Reader: the bytes of the source
    pos,     \* Reader: the cursor, the number of bytes consumed
    rprev,   \* Reader: the cursor as it was before the last call
    rres,    \* Reader: how the last read_token call ended
    expect,  \* Reader: the tokens the source was assembled from (<<>> if raw)
    formed,  \* Reader: whether the source is a concatenation of token encodings
    got,     \* Reader: the tokens returned so far
    reads,   \* Reader: the number of read_token calls so far
    zz,      \* ZigZag: input, encode's result, decode's result
    sb       \* SwapBytes: input, encode's result, decode's result

vars == <<canon, dst, wcall, wprev, wres, src, pos, rprev, rres, expect, formed,
          got, reads, zz, sb>>

writerVars == <<dst, wcall, wprev, wres>>
readerVars == <<src, pos, rprev, rres, expect, formed, got, reads>>
codecVars  == <<zz, sb>>

-----------------------------------------------------------------------------
(* Bounds of the model.                                                    *)

\* the longest byte string drawn as a payload or as a SwapBytes input
MaxLen == 3
\* how far from each edge of a limb's range the sampled integers reach
EdgeSpan == 0
\* write_token is called again only while the destination is this short
MaxDst == 1
\* the longest list of tokens a well-formed source is assembled from
MaxTokens == 2

-----------------------------------------------------------------------------
(* Python integers as limbs.                                               *)

Radix == 2^16

BigOf(n) == [hi |-> n \div Radix, lo |-> n % Radix]

\* ~x
BigInvert(x) == [hi |-> (-x.hi) - 1, lo |-> (Radix - 1) - x.lo]

\* x << 1
BigShl1(x) == [hi |-> 2 * x.hi + ((2 * x.lo) \div Radix), lo |-> (2 * x.lo) % Radix]

\* x >> 1 (arithmetic: \div rounds down)
BigShr1(x) == [hi |-> x.hi \div 2, lo |-> (x.lo \div 2) + (x.hi % 2) * (Radix \div 2)]

\* x + 1
BigInc(x) == IF x.lo = Radix - 1 THEN [hi |-> x.hi + 1, lo |-> 0]
                                 ELSE [hi |-> x.hi, lo |-> x.lo + 1]

RECURSIVE BigShl(_, _)
BigShl(x, n) == IF n = 0 THEN x ELSE BigShl(BigShl1(x), n - 1)

RECURSIVE BigShr(_, _)
BigShr(x, n) == IF n = 0 THEN x ELSE BigShr(BigShr1(x), n - 1)

\* x | y for x and y with no bit in common
BigOr(x, y) == [hi |-> x.hi + y.hi + ((x.lo + y.lo) \div Radix),
                lo |-> (x.lo + y.lo) % Radix]

\* bit k of x, 0 or 1
BigBit(x, k) == IF k < 16 THEN (x.lo \div (2^k)) % 2
                          ELSE (x.hi \div (2^(k - 16))) % 2

BigLeq(x, y) == x.hi < y.hi \/ (x.hi = y.hi /\ x.lo <= y.lo)

BigZero == BigOf(0)

-----------------------------------------------------------------------------
(* class SerializationTag(Enum): <<member name, ord(value)>> in the order  *)
(* of the class body.                                                      *)

SerializationTag == <<
    <<"INVALID", 33>>,
    <<"PADDING", 64>>,
    <<"UNDEFINED", 95>>,
    <<"NULL", 48>>,
    <<"TRUE", 84>>,
    <<"FALSE", 70>>,
    <<"STRING", 83>>,
    <<"STRING_UCHAR", 99>>,
    <<"INT32", 73>>,
    <<"UINT32", 85>>,
    <<"DATE", 68>>,
    <<"MESSAGE_PORT", 77>>,
    <<"NUMBER", 78>>,
    <<"BLOB", 98>>,
    <<"BLOB_INDEX", 105>>,
    <<"FILE", 102>>,
    <<"FILE_INDEX", 102>>,
    <<"DOM_FILE_SYSTEM", 100>>,
    <<"FILE_LIST", 108>>,
    <<"FILE_LIST_INDEX", 76>>,
    <<"IMAGE_DATA", 35>>,
    <<"OBJECT", 123>>,
    <<"SPARSE_ARRAY", 64>>,
    <<"DENSE_ARRAY", 36>>,
    <<"REG_EXP", 82>>,
    <<"ARRAY_BUFFER", 66>>,
    <<"ARRAY_BUFFER_TRANSFER", 116>>,
    <<"IMAGE_BITMAP_TRANSFER", 71>>,
    <<"ARRAY_BUFFER_VIEW", 86>>,
    <<"SHARED_ARRAY_BUFFER_TRANSFER", 117>>,
    <<"CRYPTO_KEY", 75>>,
    <<"OBJECT_REFERENCE", 94>>,
    <<"GENERATE_FRESH_OBJECT", 111>>,
    <<"GENERATE_FRESH_SPARSE_ARRAY", 97>>,
    <<"GENERATE_FRESH_DENSE_ARRAY", 65>>,
    <<"REFERENCE_COUNT", 63>>,
    <<"STRING_OBJECT", 115>>,
    <<"NUMBER_OBJECT", 110>>,
    <<"TRUE_OBJECT", 121>>,
    <<"FALSE_OBJECT", 120>>,
    <<"COMPOSITOR_PROXY", 67>>,
    <<"MAP", 58>>,
    <<"SET", 44>>,
    <<"GENERATE_FRESH_MAP", 59>>,
    <<"GENERATE_FRESH_SET", 39>>,
    <<"VERSION", 255>>
>>

TagNames == {SerializationTag[i][1] : i \in DOMAIN SerializationTag}

TagBytes == {SerializationTag[i][2] : i \in DOMAIN SerializationTag}

ValueByName ==
    [n \in TagNames |->
        SerializationTag[CHOOSE i \in DOMAIN SerializationTag : SerializationTag[i][1] = n][2]]

NamesByByte ==
    [b \in TagBytes |->
        {SerializationTag[i][1] : i \in {j \in DOMAIN SerializationTag : SerializationTag[j][2] = b}}]

\* SerializationTag.<name>.value
TagValue(name) == ValueByName[name]

\* the names of the members whose value is the byte b
NamesOfByte(b) == NamesByByte[b]

\* the byte values that two members share
AliasedBytes == {b \in TagBytes : Cardinality(NamesByByte[b]) > 1}

\* the member of each byte value that only one member has
SoleMember == [b \in TagBytes \ AliasedBytes |-> CHOOSE n \in NamesByByte[b] : TRUE]

(***************************************************************************)
(* Enum makes the second member it creates with a value an alias of the    *)
(* first: both names are then the same object.  The module is Python 2     *)
(* (xrange), where the class body reaches Enum as a dict and the order of  *)
(* creation among equal values is the dict's: either member of a pair may  *)
(* be the one that exists.  canon records which.                           *)
(***************************************************************************)
CanonChoices ==
    {f \in [AliasedBytes -> UNION {NamesByByte[b] : b \in AliasedBytes}] :
        \A b \in AliasedBytes : f[b] \in NamesByByte[b]}

\* SerializationTag(b) for a byte b that has a member
Canonical(b) == IF b \in AliasedBytes THEN canon[b] ELSE SoleMember[b]

\* SerializationTag.<name>: the member the attribute <name> is bound to
Member(name) == Canonical(ValueByName[name])

\* class ArrayBufferViewSubtag(Enum)
ArrayBufferViewSubtag == <<
    <<"BYTE_ARRAY", 98>>,
    <<"UNSIGNED_BYTE_ARRAY", 66>>,
    <<"UNSIGNED_BYTE_CLAMPED_ARRAY", 67>>,
    <<"SHORT_ARRAY", 119>>,
    <<"UNSIGNED_SHORT_ARRAY", 87>>,
    <<"INT_ARRAY", 100>>,
    <<"UNSIGNED_INT_ARRAY", 68>>,
    <<"FLOAT_ARRAY", 102>>,
    <<"DOUBLE_ARRAY", 70>>,
    <<"DATA_VIEW", 63>>
>>

SubtagNames == {ArrayBufferViewSubtag[i][1] : i \in DOMAIN ArrayBufferViewSubtag}

SubtagBytes == {ArrayBufferViewSubtag[i][2] : i \in DOMAIN ArrayBufferViewSubtag}

SubtagValueByName ==
    [n \in SubtagNames |->
        ArrayBufferViewSubtag[CHOOSE i \in DOMAIN ArrayBufferViewSubtag :
                                  ArrayBufferViewSubtag[i][1] = n][2]]

SubtagNameByByte ==
    [b \in SubtagBytes |->
        ArrayBufferViewSubtag[CHOOSE i \in DOMAIN ArrayBufferViewSubtag :
                                  ArrayBufferViewSubtag[i][2] = b][1]]

\* ArrayBufferViewSubtag.<name>.value
SubtagValue(name) == SubtagValueByName[name]

\* ArrayBufferViewSubtag(b)
SubtagOfByte(b) == SubtagNameByByte[b]

NOOP_TAGS == {Member("PADDING"), Member("GENERATE_FRESH_OBJECT")}

VARINT_TAGS == {Member("REFERENCE_COUNT"), Member("OBJECT")}

-----------------------------------------------------------------------------
(* class ZigZag                                                            *)

SignBit == 31

ZigZagEncode_NoSignFlag(value) ==
    IF BigBit(value, SignBit) = 1
    THEN BigShl1(BigInvert(value))
    ELSE BigShl1(value)

ZigZagEncode(value) ==
    IF BigBit(value, SignBit) = 1
    THEN BigInc(BigShl1(BigInvert(value)))
    ELSE BigShl1(value)

ZigZagDecode(value) ==
    IF BigBit(value, 0) = 1
    THEN BigInvert(BigShr1(value))
    ELSE BigShr1(value)

-----------------------------------------------------------------------------
(* class SwapBytes                                                         *)

\* SerializationTag.PADDING.value
PaddingByte == TagValue("PADDING")

\* data[i:i+2] for the 0-based index i
Slice2(data, i) == SubSeq(data, i + 1, IF i + 2 <= Len(data) THEN i + 2 ELSE Len(data))

\* the indices xrange(0, len(data), 2) runs through, from i on
RECURSIVE SwapEncodeFrom(_, _)
SwapEncodeFrom(data, i) ==
    IF i >= Len(data) THEN <<>>
    ELSE LET b == Slice2(data, i)
         IN  (IF Len(b) = 2 THEN <<b[2], b[1]>> ELSE <<PaddingByte, b[1]>>)
             \o SwapEncodeFrom(data, i + 2)

SwapBytesEncode(data) == SwapEncodeFrom(data, 0)

\* the loop of decode: the swapped pairs, or the failed assertion
RECURSIVE SwapDecodeFrom(_, _)
SwapDecodeFrom(data, i) ==
    IF i >= Len(data) THEN [err |-> "", val |-> <<>>]
    ELSE LET b == Slice2(data, i)
         IN  IF Len(b) # 2 THEN [err |-> "AssertionError", val |-> <<>>]
             ELSE LET rest == SwapDecodeFrom(data, i + 2)
                  IN  IF rest.err # "" THEN rest
                      ELSE [err |-> "", val |-> <<b[2], b[1]>> \o rest.val]

SwapBytesDecode(data) ==
    LET r == SwapDecodeFrom(data, 0)
    IN  IF r.err # "" THEN r
        ELSE IF Len(r.val) = 0 THEN [err |-> "IndexError", val |-> <<>>]
        ELSE IF r.val[Len(r.val)] = PaddingByte
             THEN [err |-> "", val |-> SubSeq(r.val, 1, Len(r.val) - 1)]
             ELSE r

-----------------------------------------------------------------------------
(* The byte stream under Reader and Writer (StructIO) and the varint        *)
(* module: both are imported, not part of v8coder.py.                       *)

\* a failed read, with the cursor where it stopped
ReadFail(err, p) == [err |-> err, val |-> <<>>, pos |-> p]

\* read(n) at cursor p: exactly n bytes, or ShortRead
StreamRead(s, p, n) ==
    IF p + n <= Len(s)
    THEN [err |-> "", val |-> SubSeq(s, p + 1, p + n), pos |-> p + n]
    ELSE ReadFail("ShortRead", Len(s))

\* read(n) for an n held as limbs
StreamReadBig(s, p, n) ==
    IF n.hi # 0 THEN ReadFail("ShortRead", Len(s)) ELSE StreamRead(s, p, n.lo)

\* varint.encode(number), number >= 0
RECURSIVE VarintEncode(_)
VarintEncode(number) ==
    LET towrite == number.lo % 128
        rest    == BigShr(number, 7)
    IN  IF rest # BigZero THEN <<towrite + 128>> \o VarintEncode(rest)
                          ELSE <<towrite>>

\* varint.decode_stream(stream), from cursor p with `result` gathered so far
RECURSIVE VarintDecodeFrom(_, _, _, _)
VarintDecodeFrom(s, p, shift, result) ==
    IF p >= Len(s) THEN ReadFail("ShortRead", Len(s))
    ELSE LET i   == s[p + 1]
             acc == BigOr(result, BigShl(BigOf(i % 128), shift))
         IN  IF i >= 128 THEN VarintDecodeFrom(s, p + 1, shift + 7, acc)
                         ELSE [err |-> "", val |-> acc, pos |-> p + 1]

RECURSIVE Reverse(_)
Reverse(s) == IF s = <<>> THEN <<>> ELSE Reverse(Tail(s)) \o <<Head(s)>>

(***************************************************************************)
(* A float is held as its IEEE 754 binary64 pattern, sign and exponent     *)
(* first; on the wire its eight bytes run the other way.                   *)
(***************************************************************************)
PackDouble(f) == Reverse(f)

UnpackDouble(bytes) == Reverse(bytes)

-----------------------------------------------------------------------------
(* class Reader                                                            *)
(*                                                                         *)
(* A payload is <<"none">>, <<"int", n>>, <<"bytes", b>>, <<"float", f>>   *)
(* or <<"view", subtag, offset, length>>; a token is <<tag, payload>>.     *)
(* How a call ends: "token", or the exception it raises.                   *)

Returned(tag, payload, p) ==
    [kind |-> "token", tok |-> <<tag, payload>>, name |-> "", pos |-> p]

Raised(kind, name, p) == [kind |-> kind, tok |-> <<>>, name |-> name, pos |-> p]

\* read_varint
ReadVarint(s, p) == VarintDecodeFrom(s, p, 0, BigZero)

\* read_double
ReadDouble(s, p) ==
    LET r == StreamRead(s, p, 8)
    IN  IF r.err # "" THEN r ELSE [r EXCEPT !.val = UnpackDouble(r.val)]

\* read_tag: the byte read, and the member SerializationTag(byte) if any
ReadTag(s, p) ==
    LET r == StreamRead(s, p, 1)
    IN  IF r.err # "" THEN r
        ELSE IF r.val[1] \notin TagBytes THEN ReadFail("ValueError", r.pos)
        ELSE [r EXCEPT !.val = Canonical(r.val[1])]

\* assert value <= 9
VersionAccepted_UpTo10(value) == BigLeq(value, BigOf(10))

VersionAccepted(value) == BigLeq(value, BigOf(9))

\* the branches of read_token, each from the cursor p after the tag
ReadVarintPayload(tag, s, p) ==
    LET v == ReadVarint(s, p)
    IN  IF v.err # "" THEN Raised(v.err, "", v.pos)
        ELSE Returned(tag, <<"int", v.val>>, v.pos)

ReadVersion(tag, s, p) ==
    LET v == ReadVarint(s, p)
    IN  IF v.err # "" THEN Raised(v.err, "", v.pos)
        ELSE IF ~VersionAccepted(v.val) THEN Raised("AssertionError", "", v.pos)
        ELSE Returned(tag, <<"int", v.val>>, v.pos)

ReadBuffer_LengthOnly(tag, s, p) ==
    LET n == ReadVarint(s, p)
    IN  IF n.err # "" THEN Raised(n.err, "", n.pos)
        ELSE Returned(tag, <<"bytes", <<>>>>, n.pos)

\* ARRAY_BUFFER and STRING: a varint length, then that many bytes
ReadBuffer(tag, s, p) ==
    LET n == ReadVarint(s, p)
    IN  IF n.err # "" THEN Raised(n.err, "", n.pos)
        ELSE LET b == StreamReadBig(s, n.pos, n.val)
             IN  IF b.err # "" THEN Raised(b.err, "", b.pos)
                 ELSE Returned(tag, <<"bytes", b.val>>, b.pos)

ReadDate(tag, s, p) ==
    LET d == ReadDouble(s, p)
    IN  IF d.err # "" THEN Raised(d.err, "", d.pos)
        ELSE Returned(tag, <<"float", d.val>>, d.pos)

ReadInt32(tag, s, p) ==
    LET v == ReadVarint(s, p)
    IN  IF v.err # "" THEN Raised(v.err, "", v.pos)
        ELSE Returned(tag, <<"int", ZigZagDecode(v.val)>>, v.pos)

ReadView(tag, s, p) ==
    LET b == StreamRead(s, p, 1)
    IN  IF b.err # "" THEN Raised(b.err, "", b.pos)
        ELSE IF b.val[1] \notin SubtagBytes THEN Raised("ValueError", "", b.pos)
        ELSE LET offset == ReadVarint(s, b.pos)
             IN  IF offset.err # "" THEN Raised(offset.err, "", offset.pos)
                 ELSE LET length == ReadVarint(s, offset.pos)
                      IN  IF length.err # "" THEN Raised(length.err, "", length.pos)
                          ELSE Returned(tag, <<"view", SubtagOfByte(b.val[1]),
                                               offset.val, length.val>>, length.pos)

ReadUnhandled_Skip(tag, p) == Returned(tag, <<"none">>, p)

\* raise NotImplementedError('Unimplemented Tag, %s' % tag.name)
ReadUnhandled(tag, p) == Raised("NotImplementedError", tag, p)

\* read_token at cursor p
ReadToken(s, p) ==
    LET t   == ReadTag(s, p)
        tag == t.val
    IN  IF t.err # "" THEN Raised(t.err, "", t.pos)
        ELSE IF tag \in NOOP_TAGS THEN Returned(tag, <<"none">>, t.pos)
        ELSE IF tag \in VARINT_TAGS THEN ReadVarintPayload(tag, s, t.pos)
        ELSE IF tag = Member("VERSION") THEN ReadVersion(tag, s, t.pos)
        ELSE IF tag = Member("ARRAY_BUFFER") THEN ReadBuffer(tag, s, t.pos)
        ELSE IF tag = Member("STRING") THEN ReadBuffer(tag, s, t.pos)
        ELSE IF tag = Member("DATE") THEN ReadDate(tag, s, t.pos)
        ELSE IF tag = Member("INT32") THEN ReadInt32(tag, s, t.pos)
        ELSE IF tag = Member("ARRAY_BUFFER_VIEW") THEN ReadView(tag, s, t.pos)
        ELSE ReadUnhandled(tag, t.pos)

-----------------------------------------------------------------------------
(* class Writer                                                            *)

Written(d) == [err |-> "", name |-> "", dst |-> d]

Failed(err, name, d) == [err |-> err, name |-> name, dst |-> d]

\* write_tag: self.write(SerializationTag(tag).value)
WriteTag(d, tag) == d \o <<TagValue(tag)>>

\* write_varint
WriteVarint(d, value) == d \o VarintEncode(value)

\* write_double
WriteDouble(d, value) == d \o PackDouble(value)

\* assert len(value) > 1
StringAccepted(value) == Len(value) > 1

\* the branches of write_token; `value, = token_args` needs one argument
WriteVersion(d, tag, token_args) ==
    IF Len(token_args) # 1 THEN Failed("ValueError", "", d)
    ELSE Written(WriteVarint(WriteTag(d, tag), token_args[1]))

WriteVarintPayload(d, tag, token_args) ==
    IF Len(token_args) # 1 THEN Failed("ValueError", "", d)
    ELSE Written(WriteVarint(WriteTag(d, tag), token_args[1]))

WriteArrayBuffer(d, tag, token_args) ==
    IF Len(token_args) # 1 THEN Failed("ValueError", "", d)
    ELSE LET value == token_args[1]
         IN  Written(WriteVarint(WriteTag(d, tag), BigOf(Len(value))) \o value)

WriteString(d, tag, token_args) ==
    IF Len(token_args) # 1 THEN Failed("ValueError", "", d)
    ELSE LET value  == token_args[1]
             tagged == WriteTag(d, tag)
         IN  IF ~StringAccepted(value) THEN Failed("AssertionError", "", tagged)
             ELSE Written(WriteVarint(tagged, BigOf(Len(value))) \o value)

WriteDate(d, tag, token_args) ==
    IF Len(token_args) # 1 THEN Failed("ValueError", "", d)
    ELSE Written(WriteDouble(d, token_args[1]))

WriteInt32(d, tag, token_args) ==
    IF Len(token_args) # 1 THEN Failed("ValueError", "", d)
    ELSE Written(WriteVarint(d, ZigZagEncode(token_args[1])))

WriteView(d, tag, token_args) ==
    IF Len(token_args) # 3 THEN Failed("ValueError", "", d)
    ELSE LET subtag == token_args[1]
             offset == token_args[2]
             length == token_args[3]
         IN  IF subtag \notin SubtagNames THEN Failed("ValueError", "", d)
             ELSE Written(WriteVarint(WriteVarint(d \o <<SubtagValue(subtag)>>, offset),
                                      length))

\* raise NotImplementedError('Unimplemented Tag, %s' % tag.name)
WriteUnhandled(d, tag) == Failed("NotImplementedError", tag, d)

\* write_token(tag, *token_args) on the destination d
WriteToken(d, tag, token_args) ==
    IF tag \in NOOP_TAGS THEN Written(WriteTag(d, tag))
    ELSE IF tag = Member("VERSION") THEN WriteVersion(d, tag, token_args)
    ELSE IF tag \in VARINT_TAGS THEN WriteVarintPayload(d, tag, token_args)
    ELSE IF tag = Member("ARRAY_BUFFER") THEN WriteArrayBuffer(d, tag, token_args)
    ELSE IF tag = Member("STRING") THEN WriteString(d, tag, token_args)
    ELSE IF tag = Member("DATE") THEN WriteDate(d, tag, token_args)
    ELSE IF tag = Member("INT32") THEN WriteInt32(d, tag, token_args)
    ELSE IF tag = Member("ARRAY_BUFFER_VIEW") THEN WriteView(d, tag, token_args)
    ELSE WriteUnhandled(d, tag)

-----------------------------------------------------------------------------
(* The inputs the model draws.                                             *)

\* '@' (the PADDING byte), 'a', and a byte with the top bit set
ByteSamples == {64, 97, 255}

ByteStrings == UNION {[1..n -> ByteSamples] : n \in 0..MaxLen}

\* signed 32-bit integers: hi in -2^15 .. 2^15 - 1, at and near the edges of
\* the range, of zero and of the one-byte varint
HiSamples == UNION {{-(2^15) + k, (-1) - k, k, (2^15 - 1) - k} : k \in 0..EdgeSpan}

LoSamples == UNION {{k, 63 - k, 64 + k, (Radix - 65) - k, (Radix - 64) + k, (Radix - 1) - k} :
                       k \in 0..EdgeSpan}

Int32Samples == {[hi |-> h, lo |-> l] : h \in HiSamples, l \in LoSamples}

\* non-negative integers around the VERSION limit and the varint byte edge
VarintSamples ==
    {BigOf(n) : n \in UNION {{k, 9 - k, 10 + k, 127 - k, 128 + k, 16384 + k} : k \in 0..EdgeSpan}}
    \cup {[hi |-> Radix - 1, lo |-> Radix - 1]}

\* 0.0, 1.0, -2.5, and two floats whose first byte on the wire is '@' and 0xFF
FloatSamples == {
    <<0, 0, 0, 0, 0, 0, 0, 0>>,
    <<63, 240, 0, 0, 0, 0, 0, 0>>,
    <<192, 4, 0, 0, 0, 0, 0, 0>>,
    <<63, 240, 0, 0, 0, 0, 0, 64>>,
    <<63, 240, 0, 0, 0, 0, 9, 255>> }

ViewOffsets == {BigOf(0), BigOf(128)}

ViewLengths == {BigOf(16)}

\* the argument tuples write_token is called with, by the name of the tag
ArgsByName ==
    [name \in TagNames |->
        IF name \in {"VERSION", "REFERENCE_COUNT", "OBJECT"}
            THEN {<<n>> : n \in VarintSamples} \cup {<<>>}
        ELSE IF name \in {"ARRAY_BUFFER", "STRING"}
            THEN {<<b>> : b \in ByteStrings} \cup {<<>>}
        ELSE IF name = "DATE" THEN {<<f>> : f \in FloatSamples} \cup {<<>>}
        ELSE IF name = "INT32" THEN {<<x>> : x \in Int32Samples} \cup {<<>>}
        ELSE IF name = "ARRAY_BUFFER_VIEW"
            THEN {<<st, o, l>> : st \in SubtagNames \cup {"NOT_A_SUBTAG"},
                                 o \in ViewOffsets, l \in ViewLengths} \cup {<<>>}
        ELSE {<<>>}]

\* the calls write_token(SerializationTag.<name>, *token_args) the model makes
Calls == UNION {{<<n, token_args>> : token_args \in ArgsByName[n]} : n \in TagNames}

-----------------------------------------------------------------------------
(* The state after construction.                                           *)

IdleCall == [attr |-> "", tag |-> "", args |-> <<>>]

IdleZigZag == [stage |-> 0, x |-> BigZero, enc |-> BigZero, dec |-> BigZero]

IdleSwap == [stage |-> 0, data |-> <<>>, enc |-> <<>>, dec |-> [err |-> "", val |-> <<>>]]

InitWriter ==
    /\ dst = <<>>
    /\ wcall = IdleCall
    /\ wprev = <<>>
    /\ wres = [err |-> "idle", name |-> ""]

InitReader ==
    /\ src = <<>>
    /\ pos = 0
    /\ rprev = 0
    /\ rres = Raised("idle", "", 0)
    /\ expect = <<>>
    /\ formed = FALSE
    /\ got = <<>>
    /\ reads = 0

InitCodec ==
    /\ zz = IdleZigZag
    /\ sb = IdleSwap

-----------------------------------------------------------------------------
(* ZigZag and SwapBytes, applied to the input drawn.                       *)

ZigZagEncodeStep ==
    /\ zz.stage = 0
    /\ zz' = [zz EXCEPT !.stage = 1, !.enc = ZigZagEncode(zz.x)]
    /\ UNCHANGED <<canon, writerVars, readerVars, sb>>

ZigZagDecodeStep ==
    /\ zz.stage = 1
    /\ zz' = [zz EXCEPT !.stage = 2, !.dec = ZigZagDecode(zz.enc)]
    /\ UNCHANGED <<canon, writerVars, readerVars, sb>>

SwapEncodeStep ==
    /\ sb.stage = 0
    /\ sb' = [sb EXCEPT !.stage = 1, !.enc = SwapBytesEncode(sb.data)]
    /\ UNCHANGED <<canon, writerVars, readerVars, zz>>

SwapDecodeStep ==
    /\ sb.stage = 1
    /\ sb' = [sb EXCEPT !.stage = 2, !.dec = SwapBytesDecode(sb.enc)]
    /\ UNCHANGED <<canon, writerVars, readerVars, zz>>

\* decode called on bytes that encode did not produce
SwapDecodeRawStep ==
    /\ sb.stage = 0
    /\ sb' = [sb EXCEPT !.stage = 3, !.dec = SwapBytesDecode(sb.data)]
    /\ UNCHANGED <<canon, writerVars, readerVars, zz>>

InitZigZag ==
    /\ canon \in CanonChoices
    /\ InitWriter
    /\ InitReader
    /\ sb = IdleSwap
    /\ \E x \in Int32Samples : zz = [IdleZigZag EXCEPT !.x = x]

NextZigZag == ZigZagEncodeStep \/ ZigZagDecodeStep

SpecZigZag == InitZigZag /\ [][NextZigZag]_vars

InitSwapBytes ==
    /\ canon \in CanonChoices
    /\ InitWriter
    /\ InitReader
    /\ zz = IdleZigZag
    /\ \E data \in ByteStrings : sb = [IdleSwap EXCEPT !.data = data]

NextSwapBytes == SwapEncodeStep \/ SwapDecodeStep \/ SwapDecodeRawStep

SpecSwapBytes == InitSwapBytes /\ [][NextSwapBytes]_vars

-----------------------------------------------------------------------------
(* Writer: one write_token call.                                           *)

WriteStep ==
    /\ Len(dst) <= MaxDst
    /\ \E call \in Calls :
          LET tag == Member(call[1])
              r   == WriteToken(dst, tag, call[2])
          IN  /\ dst' = r.dst
              /\ wcall' = [attr |-> call[1], tag |-> tag, args |-> call[2]]
              /\ wprev' = dst
              /\ wres' = [err |-> r.err, name |-> r.name]
    /\ UNCHANGED <<canon, readerVars, codecVars>>

InitIdle ==
    /\ canon \in CanonChoices
    /\ InitWriter
    /\ InitReader
    /\ InitCodec

SpecWriter == InitIdle /\ [][WriteStep]_vars

-----------------------------------------------------------------------------
(* Reader: one read_token call on the source.                              *)

MaxReads == MaxTokens + 1

ReadStep ==
    /\ reads < MaxReads
    /\ LET r == ReadToken(src, pos)
       IN  /\ rres' = r
           /\ pos' = r.pos
           /\ rprev' = pos
           /\ got' = IF r.kind = "token" THEN Append(got, r.tok) ELSE got
           /\ reads' = reads + 1
    /\ UNCHANGED <<canon, writerVars, codecVars, src, expect, formed>>

-----------------------------------------------------------------------------
(* The wire format a token is meant to have: one tag byte, then the        *)
(* payload of the tag's row in the format's table.  Sources handed to the  *)
(* Reader are assembled with it, and the Writer's output is compared to it. *)

HandledNames == {"PADDING", "GENERATE_FRESH_OBJECT", "VERSION", "REFERENCE_COUNT",
                 "OBJECT", "ARRAY_BUFFER", "STRING", "DATE", "INT32",
                 "ARRAY_BUFFER_VIEW"}

HandledBytes == {TagValue(n) : n \in HandledNames}

WirePayload(tag, payload) ==
    CASE payload[1] = "none"  -> <<>>
      [] payload[1] = "int"   -> IF TagValue(tag) = TagValue("INT32")
                                 THEN VarintEncode(ZigZagEncode(payload[2]))
                                 ELSE VarintEncode(payload[2])
      [] payload[1] = "bytes" -> VarintEncode(BigOf(Len(payload[2]))) \o payload[2]
      [] payload[1] = "float" -> PackDouble(payload[2])
      [] payload[1] = "view"  -> <<SubtagValue(payload[2])>>
                                 \o VarintEncode(payload[3]) \o VarintEncode(payload[4])

WireBytes(tok) == <<TagValue(tok[1])>> \o WirePayload(tok[1], tok[2])

RECURSIVE WireStream(_)
WireStream(toks) ==
    IF toks = <<>> THEN <<>> ELSE WireBytes(Head(toks)) \o WireStream(Tail(toks))

\* the payload write_token's arguments stand for, by the tag's byte
ArgPayload(tag, token_args) ==
    LET b == TagValue(tag)
    IN  IF b \in {TagValue("PADDING"), TagValue("GENERATE_FRESH_OBJECT")} THEN <<"none">>
        ELSE IF b \in {TagValue("ARRAY_BUFFER"), TagValue("STRING")}
            THEN <<"bytes", token_args[1]>>
        ELSE IF b = TagValue("DATE") THEN <<"float", token_args[1]>>
        ELSE IF b = TagValue("ARRAY_BUFFER_VIEW")
            THEN <<"view", token_args[1], token_args[2], token_args[3]>>
        ELSE <<"int", token_args[1]>>

\* the handled tokens, as first token of a source
FirstTokens ==
    {<<Member(n), <<"none">>>> : n \in {"PADDING", "GENERATE_FRESH_OBJECT"}}
    \cup {<<Member("VERSION"), <<"int", BigOf(v)>>>> : v \in 0..9}
    \cup {<<Member(n), <<"int", v>>>> : n \in {"REFERENCE_COUNT", "OBJECT"}, v \in VarintSamples}
    \cup {<<Member("ARRAY_BUFFER"), <<"bytes", b>>>> : b \in ByteStrings}
    \cup {<<Member("STRING"), <<"bytes", b>>>> : b \in {c \in ByteStrings : Len(c) > 1}}
    \cup {<<Member("DATE"), <<"float", f>>>> : f \in FloatSamples}
    \cup {<<Member("INT32"), <<"int", x>>>> : x \in Int32Samples}
    \cup {<<Member("ARRAY_BUFFER_VIEW"), <<"view", st, o, l>>>> :
             st \in SubtagNames, o \in ViewOffsets, l \in ViewLengths}

\* and as the tokens that follow it: one of each payload shape
FollowTokens ==
    { <<Member("PADDING"), <<"none">>>>,
      <<Member("VERSION"), <<"int", BigOf(9)>>>>,
      <<Member("STRING"), <<"bytes", <<97, 64>>>>>>,
      <<Member("DATE"), <<"float", <<63, 240, 0, 0, 0, 0, 0, 0>>>>>>,
      <<Member("INT32"), <<"int", BigOf(-1)>>>>,
      <<Member("ARRAY_BUFFER_VIEW"), <<"view", "FLOAT_ARRAY", BigOf(0), BigOf(16)>>>> }

TokenLists ==
    {<<>>} \cup
    {<<t>> \o f : t \in FirstTokens,
                  f \in UNION {[1..k -> FollowTokens] : k \in 0..(MaxTokens - 1)}}

\* sources that are no such concatenation: every leading byte, then a few bytes
RawTails == {<<>>, <<9>>, <<10>>, <<128>>, <<2, 97, 64>>, <<102, 0, 16>>}

RawStreams ==
    {<<b>> \o tail : b \in 0..255, tail \in RawTails}
    \cup {<<TagValue("VERSION")>> \o VarintEncode(v) : v \in VarintSamples}

InitSource ==
    /\ canon \in CanonChoices
    /\ InitWriter
    /\ InitCodec
    /\ pos = 0
    /\ rprev = 0
    /\ rres = Raised("idle", "", 0)
    /\ got = <<>>
    /\ reads = 0
    /\ \/ \E toks \in TokenLists :
             /\ src = WireStream(toks)
             /\ expect = toks
             /\ formed = TRUE
       \/ \E raw \in RawStreams :
             /\ src = raw
             /\ expect = <<>>
             /\ formed = FALSE

SpecReader == InitSource /\ [][ReadStep]_vars

-----------------------------------------------------------------------------
(* A token written to an empty destination, and a Reader over the bytes.   *)

WriteOnce ==
    /\ wres.err = "idle"
    /\ WriteStep

LoadWritten ==
    /\ wres.err = ""
    /\ src = <<>>
    /\ reads = 0
    /\ src' = dst
    /\ UNCHANGED <<canon, writerVars, codecVars, pos, rprev, rres, expect, formed, got, reads>>

ReadWritten ==
    /\ src # <<>>
    /\ ReadStep

NextRoundTrip == WriteOnce \/ LoadWritten \/ ReadWritten

SpecRoundTrip == InitIdle /\ [][NextRoundTrip]_vars

-----------------------------------------------------------------------------
\* C4: for every signed 32-bit x, ZigZag.encode(x) is a non-negative integer
\* below 2^32, and ZigZag.decode(ZigZag.encode(x)) is x.
ZigZagRoundTrip ==
    /\ zz.stage >= 1 => zz.enc.hi \in 0..(Radix - 1) /\ zz.enc.lo \in 0..(Radix - 1)
    /\ zz.stage = 2 => zz.dec = zz.x

\* a negative input at the lower edge of the range has gone through both
ZigZagRoundTripWitness ==
    /\ zz.stage = 2
    /\ zz.x = [hi |-> -(2^15), lo |-> 0]
    /\ zz.enc = [hi |-> Radix - 1, lo |-> Radix - 1]
    /\ zz.dec = zz.x

\* C3: for every byte string b, the empty one included,
\* SwapBytes.decode(SwapBytes.encode(b)) completes without error and is b.
SwapBytesRoundTrip ==
    sb.stage = 2 => sb.dec.err = "" /\ sb.dec.val = sb.data

-----------------------------------------------------------------------------
\* the tag and payload of the last write_token call, as a token
CallToken == <<wcall.tag, ArgPayload(wcall.tag, wcall.args)>>

\* C1: for every tag handled by both sides, with a payload the format
\* allows, write_token on an empty destination followed by read_token on
\* the bytes produced returns exactly (tag, payload).
RoundTripReturnsToken ==
    ( /\ wres.err = ""
      /\ src = dst
      /\ reads = 1
      /\ TagValue(wcall.tag) \in HandledBytes
      /\ wcall.tag = Member("VERSION") => BigLeq(wcall.args[1], BigOf(9)) )
    => /\ rres.kind = "token"
       /\ rres.tok = CallToken

\* C2: the bytes a successful write_token appends are the tag's byte
\* followed by the payload of the tag's row in the wire-format table.
WriteFollowsWireFormat ==
    wres.err = "" => dst = wprev \o WireBytes(CallToken)

\* C6: whenever write_token fails, the destination holds exactly the bytes
\* it held before the call.
WriteFailureLeavesDestination ==
    wres.err \notin {"", "idle"} => dst = wprev

\* C8: no VERSION token with a payload outside [0,9] is returned by
\* read_token or emitted to the destination by write_token.
VersionPayloadInRange ==
    /\ (rres.kind = "token" /\ rres.tok[1] = Member("VERSION"))
          => BigLeq(BigZero, rres.tok[2][2]) /\ BigLeq(rres.tok[2][2], BigOf(9))
    /\ (wcall.tag = Member("VERSION") /\ dst # wprev)
          => BigLeq(BigZero, wcall.args[1]) /\ BigLeq(wcall.args[1], BigOf(9))

\* C10: write_token called with any member outside the handled set, the
\* members that share a byte with another member included, fails with
\* NotImplemented.
UnhandledMembersFail ==
    wcall.attr \in TagNames \ HandledNames => wres.err = "NotImplementedError"

-----------------------------------------------------------------------------
\* the byte the last read_token call began with
LeadingByte == src[rprev + 1]

\* the last call began on a byte (the source was not at its end)
BeganOnByte == reads >= 1 /\ rprev < Len(src)

\* C7: read_token on a VERSION tag byte followed by a varint v returns
\* (VERSION, v) when v is in [0,9], and fails without a token when v >= 10.
VersionGate ==
    (BeganOnByte /\ LeadingByte = TagValue("VERSION"))
    => LET v == ReadVarint(src, rprev + 1)
       IN  v.err = ""
           => IF BigLeq(v.val, BigOf(9))
              THEN rres = Returned(Member("VERSION"), <<"int", v.val>>, v.pos)
              ELSE rres.kind = "AssertionError" /\ rres.tok = <<>>

\* VERSION 10 has been read and rejected
VersionGateWitness ==
    /\ src = <<255, 10>>
    /\ reads = 1
    /\ rres.kind = "AssertionError"
    /\ got = <<>>

\* C9: a leading byte that is no member fails with InvalidTag; a byte of a
\* member outside the handled tags fails with NotImplemented carrying that
\* member's name; only a byte of a handled tag produces a token.
TagClassification ==
    BeganOnByte
    => /\ LeadingByte \notin TagBytes
             => rres.kind = "ValueError" /\ rres.tok = <<>>
       /\ (LeadingByte \in TagBytes /\ LeadingByte \notin HandledBytes)
             => /\ rres.kind = "NotImplementedError"
                /\ rres.name \in NamesOfByte(LeadingByte)
                /\ rres.tok = <<>>
       /\ rres.kind = "token" => LeadingByte \in HandledBytes

\* the byte ':' has been read and refused, naming MAP
TagClassificationWitness ==
    /\ reads = 1
    /\ src = <<58>>
    /\ rres.kind = "NotImplementedError"
    /\ rres.name = "MAP"

\* C5: on a source that is the concatenation of the encodings of handled
\* tokens t1..tn, successive read_token calls return t1..tn in order, each
\* consuming exactly its token's bytes, and leave the cursor at the end.
TokensReadInOrder ==
    formed
    => /\ Len(got) = (IF reads <= Len(expect) THEN reads ELSE Len(expect))
       /\ got = SubSeq(expect, 1, Len(got))
       /\ pos = Len(WireStream(got))
       /\ reads >= Len(expect) => pos = Len(src)

\* a STRING and the token after it have both been read, to the end
TokensReadInOrderWitness ==
    /\ formed
    /\ Len(expect) = 2
    /\ expect[1] = <<"STRING", <<"bytes", <<97, 64, 255>>>>>>
    /\ reads = 2
    /\ got = expect
    /\ pos = Len(src)

=============================================================================
